---- MODULE Spec2Model ----
(***************************************************************************)
(* Model of src/main.py: the Threads "average impressions" pipeline.       *)
(*                                                                         *)
(*   make_api_request  as the operator make_api_request                    *)
(*   get_user_posts    as the operator get_user_posts                      *)
(*   get_post_views    as the operator get_post_views                      *)
(*   get_average_impressions -> the actions GetUserPosts, GetPostViews,    *)
(*                        Accumulate, Sleep, Finish                        *)
(*   __main__          -> EntryPoint                                       *)
(*                                                                         *)
(* JSON documents are tagged records, and Python's subscripting, .get,     *)
(* len, truthiness and iteration are operators over them that raise what   *)
(* Python raises.  A float is a reduced fraction.                          *)
(***************************************************************************)
EXTENDS Integers, Sequences, FiniteSets, TLC

\* Longest list of posts the posts endpoint answers with in the model.
MaxPosts == 3

-----------------------------------------------------------------------------
(* JSON values as json.loads builds them; Python None is JNull.            *)

JNull == [t |-> "null"]
JInt(n) == [t |-> "int", n |-> n]
\* A string is the sequence of its characters.
JStr(cs) == [t |-> "str", chars |-> cs]
JList(xs) == [t |-> "list", items |-> xs]
\* A dict is its keys with the values at the same positions.
JDict(ks, vs) == [t |-> "dict", keys |-> ks, vals |-> vs]
EmptyDict == JDict(<<>>, <<>>)
EmptyList == JList(<<>>)

\* Outcome of evaluating a Python expression: a value, or a raised exception.
Ok(v) == [ok |-> TRUE, val |-> v, exc |-> "none"]
Err(e) == [ok |-> FALSE, val |-> JNull, exc |-> e]

HasKey(d, k) == \E i \in 1..Len(d.keys) : d.keys[i] = k
ValueAt(d, k) == d.vals[CHOOSE i \in 1..Len(d.keys) : d.keys[i] = k]

\* obj[k] for a string k.
GetKey(obj, k) ==
    IF obj.t = "dict"
    THEN IF HasKey(obj, k) THEN Ok(ValueAt(obj, k)) ELSE Err("KeyError")
    ELSE Err("TypeError")

\* obj[i] for an integer i >= 0.
GetIndex(obj, i) ==
    CASE obj.t = "dict" -> Err("KeyError")
      [] obj.t = "list" -> IF i < Len(obj.items) THEN Ok(obj.items[i + 1])
                                                 ELSE Err("IndexError")
      [] obj.t = "str"  -> IF i < Len(obj.chars) THEN Ok(JStr(<<obj.chars[i + 1]>>))
                                                 ELSE Err("IndexError")
      [] OTHER          -> Err("TypeError")

\* obj.get(k, default)
DictGet(obj, k, default) ==
    IF obj.t = "dict"
    THEN IF HasKey(obj, k) THEN Ok(ValueAt(obj, k)) ELSE Ok(default)
    ELSE Err("AttributeError")

\* bool(obj)
Truthy(obj) ==
    CASE obj.t = "null" -> FALSE
      [] obj.t = "int"  -> obj.n # 0
      [] obj.t = "str"  -> Len(obj.chars) > 0
      [] obj.t = "list" -> Len(obj.items) > 0
      [] obj.t = "dict" -> Len(obj.keys) > 0

\* len(obj): a number, or -1 where Python raises TypeError.
PyLen(obj) ==
    CASE obj.t = "list" -> Len(obj.items)
      [] obj.t = "str"  -> Len(obj.chars)
      [] obj.t = "dict" -> Len(obj.keys)
      [] OTHER          -> -1

\* The elements `for x in obj` visits (obj passed len(), so it is iterable).
PyIter(obj) ==
    CASE obj.t = "list" -> obj.items
      [] obj.t = "str"  -> [i \in 1..Len(obj.chars) |-> JStr(<<obj.chars[i]>>)]
      [] obj.t = "dict" -> [i \in 1..Len(obj.keys) |-> JStr(<<obj.keys[i]>>)]
      [] OTHER          -> <<>>

-----------------------------------------------------------------------------
(* HTTP outcomes of requests.get.                                          *)

\* A response body: JSON text of a document, or text that is no JSON.
JsonBody(doc) == [json |-> TRUE, doc |-> doc]
NonJson == [json |-> FALSE, doc |-> JNull]

\* requests.get raised a RequestException: no response object exists.
NetFail == [kind |-> "netfail", status |-> 0, body |-> NonJson]
Resp(status, body) == [kind |-> "resp", status |-> status, body |-> body]

\* Response.raise_for_status raises HTTPError for 4xx and 5xx.
RaiseForStatus(status) == 400 <= status /\ status < 600

\* The endpoints.
ThreadsUrl == [endpoint |-> "me/threads", media_id |-> JNull]
InsightsUrl(media_id) == [endpoint |-> "insights", media_id |-> media_id]
NoUrl == [endpoint |-> "none", media_id |-> JNull]

\* Exceptions: the type, and the URL a ThreadsApiError's message carries.
Exc(type) == [type |-> type, url |-> NoUrl]
ThreadsApiError(url) == [type |-> "ThreadsApiError", url |-> url]
NoExc == Exc("none")

\* Log lines: level, format, arguments.
LogLine(level, text, args) == [level |-> level, text |-> text, args |-> args]
ExcText == JStr(<<"e">>)

Returned(doc, logs) == [kind |-> "return", doc |-> doc, exc |-> NoExc, logs |-> logs]
Raised(e, logs) == [kind |-> "raise", doc |-> JNull, exc |-> e, logs |-> logs]

-----------------------------------------------------------------------------
(* make_api_request                                                        *)

\* error_info as lines 29-34 leave it: {} unless the status is 400 and the
\* body parses (a body that does not parse raises ValueError, passed over).
ErrorInfo(http) ==
    IF http.status = 400
    THEN IF http.body.json THEN DictGet(http.body.doc, "error", EmptyDict)
                           ELSE Ok(EmptyDict)
    ELSE Ok(EmptyDict)

\* The except clause, lines 28-44.  After a failed requests.get the name
\* `response` is unbound, and line 30 raises UnboundLocalError.
ExceptHandler(url, http) ==
    IF http.kind = "netfail" THEN Raised(Exc("UnboundLocalError"), <<>>)
    ELSE LET info == ErrorInfo(http) IN
         IF ~info.ok THEN Raised(Exc(info.exc), <<>>)
         ELSE IF Truthy(info.val)
         THEN LET msg == DictGet(info.val, "message", ExcText) IN
              IF ~msg.ok THEN Raised(Exc(msg.exc), <<>>)
              ELSE Raised(ThreadsApiError(url),
                     <<LogLine("ERROR", "API request failed: %s (Code: %s, Subcode: %s)",
                               <<msg.val,
                                 DictGet(info.val, "code", JNull).val,
                                 DictGet(info.val, "error_subcode", JNull).val>>)>>)
         ELSE Raised(ThreadsApiError(url),
                     <<LogLine("ERROR", "API request failed: %s", <<ExcText>>)>>)

\* Lines 24-44.  jsonErrIsRequestException is the installed requests build:
\* from 2.27 on Response.json raises requests.JSONDecodeError, a
\* RequestException; before, a plain ValueError that line 28 does not catch.
make_api_request(url, http, jsonErrIsRequestException) ==
    IF http.kind = "netfail" THEN ExceptHandler(url, http)
    ELSE IF RaiseForStatus(http.status) THEN ExceptHandler(url, http)
    ELSE IF http.body.json THEN Returned(http.body.doc, <<>>)
    ELSE IF jsonErrIsRequestException THEN ExceptHandler(url, http)
    ELSE Raised(Exc("ValueError"), <<>>)

-----------------------------------------------------------------------------
(* get_user_posts                                                          *)

\* Lines 55-76: the posts (doc), or the exception that leaves the function.
get_user_posts(http, jsonErrIsRequestException) ==
    LET start == <<LogLine("INFO", "Fetching posts for user", <<>>)>>
        r == make_api_request(ThreadsUrl, http, jsonErrIsRequestException)
        logs == start \o r.logs
    IN  IF r.kind = "raise"
        THEN IF r.exc.type = "ThreadsApiError"
             THEN Returned(EmptyList,
                           Append(logs, LogLine("ERROR", "Failed to fetch posts", <<>>)))
             ELSE Raised(r.exc, logs)
        ELSE LET posts == DictGet(r.doc, "data", EmptyList) IN
             IF ~posts.ok THEN Raised(Exc(posts.exc), logs)
             ELSE IF PyLen(posts.val) < 0 THEN Raised(Exc("TypeError"), logs)
             ELSE Returned(posts.val,
                           Append(logs, LogLine("INFO", "Retrieved %s posts",
                                                <<JInt(PyLen(posts.val))>>)))

-----------------------------------------------------------------------------
(* get_post_views                                                          *)

\* e[k] where e is an outcome: a raised exception stays raised.
ThenKey(e, k) == IF e.ok THEN GetKey(e.val, k) ELSE e
ThenIndex(e, i) == IF e.ok THEN GetIndex(e.val, i) ELSE e

\* Line 95: data["data"][0]["values"][0]["value"]
ViewsOf(doc) ==
    ThenKey(ThenIndex(ThenKey(ThenIndex(GetKey(doc, "data"), 0), "values"), 0), "value")

\* Line 98: the exceptions get_post_views catches.
ViewsCaught == {"ThreadsApiError", "KeyError", "IndexError"}

\* Lines 87-100: the views (doc, JNull for None), or the exception that leaves.
get_post_views(media_id, http, jsonErrIsRequestException) ==
    LET start == <<LogLine("INFO", "Fetching views for post %s", <<media_id>>)>>
        r == make_api_request(InsightsUrl(media_id), http, jsonErrIsRequestException)
        logs == start \o r.logs
        failed == Returned(JNull,
                     Append(logs, LogLine("ERROR", "Failed to fetch views for post %s",
                                          <<media_id>>)))
    IN  IF r.kind = "raise"
        THEN IF r.exc.type \in ViewsCaught THEN failed ELSE Raised(r.exc, logs)
        ELSE LET v == ViewsOf(r.doc) IN
             IF ~v.ok
             THEN IF v.exc \in ViewsCaught THEN failed ELSE Raised(Exc(v.exc), logs)
             ELSE Returned(v.val,
                           Append(logs, LogLine("INFO", "Post %s has %s views",
                                                <<media_id, v.val>>)))

-----------------------------------------------------------------------------
(* What the API answers with.                                              *)

\* View counts the insights endpoint reports.
Values == {0, 50, 100, 150, 300}

\* {"data": [{"values": [{"value": v}]}]}
InsightsDoc(v) ==
    JDict(<<"data">>,
          <<JList(<<JDict(<<"values">>, <<JList(<<JDict(<<"value">>, <<v>>)>>)>>)>>)>>)

\* {"error": e}
ErrorDoc(e) == JDict(<<"error">>, <<e>>)

\* {"message": "Invalid token", "code": 190, "error_subcode": 463}
InvalidToken ==
    JDict(<<"message", "code", "error_subcode">>,
          <<JStr(<<"I", "n", "v", "a", "l", "i", "d", " ", "t", "o", "k", "e", "n">>),
            JInt(190), JInt(463)>>)

\* Outcomes of a GET in which the call fails.
HttpFailures ==
    { NetFail,
      Resp(500, NonJson),
      Resp(404, JsonBody(ErrorDoc(InvalidToken))),
      Resp(304, NonJson),
      Resp(400, JsonBody(ErrorDoc(InvalidToken))),
      Resp(400, JsonBody(ErrorDoc(JDict(<<"code">>, <<JInt(190)>>)))),
      Resp(400, NonJson),
      Resp(400, JsonBody(EmptyDict)),
      Resp(400, JsonBody(ErrorDoc(EmptyDict))),
      Resp(400, JsonBody(ErrorDoc(JNull))),
      Resp(400, JsonBody(ErrorDoc(JStr(<<"x">>)))),
      Resp(400, JsonBody(EmptyList)) }

\* The k-th post of a posts answer: a record with an id, a record without
\* one, or an element that is no record.
Post(k, kind) ==
    CASE kind = "id"   -> JDict(<<"id", "text">>, <<JStr(<<ToString(k)>>), JStr(<<"t">>)>>)
      [] kind = "noid" -> JDict(<<"text">>, <<JStr(<<"t">>)>>)
      [] kind = "str"  -> JStr(<<"x">>)

PostKinds == {"id", "noid", "str"}

PostLists ==
    UNION { { JList([k \in 1..n |-> Post(k, f[k])]) : f \in [1..n -> PostKinds] }
            : n \in 0..MaxPosts }

\* Outcomes of the GET of get_user_posts.
PostsResponses ==
    HttpFailures
    \cup { Resp(200, JsonBody(JDict(<<"data">>, <<l>>))) : l \in PostLists }
    \cup { Resp(200, JsonBody(EmptyDict)),
           Resp(200, JsonBody(JDict(<<"data">>, <<JNull>>))),
           Resp(200, JsonBody(JDict(<<"data">>, <<JStr(<<"x">>)>>))),
           Resp(200, JsonBody(JDict(<<"paging">>, <<EmptyDict>>))),
           Resp(200, JsonBody(EmptyList)),
           Resp(200, NonJson) }

\* Outcomes of the GET of get_post_views.
ViewsResponses ==
    { NetFail,
      Resp(500, NonJson),
      Resp(400, JsonBody(ErrorDoc(InvalidToken))) }
    \cup { Resp(200, JsonBody(InsightsDoc(JInt(v)))) : v \in Values }
    \cup { Resp(200, JsonBody(InsightsDoc(JNull))),
           Resp(200, JsonBody(InsightsDoc(JStr(<<"x">>)))),
           Resp(200, JsonBody(EmptyDict)),
           Resp(200, JsonBody(JDict(<<"data">>, <<EmptyList>>))),
           Resp(200, JsonBody(JDict(<<"data">>, <<JList(<<JDict(<<"values">>, <<EmptyList>>)>>)>>))),
           Resp(200, JsonBody(JDict(<<"data">>, <<JNull>>))),
           Resp(200, JsonBody(JDict(<<"data">>, <<JStr(<<"x">>)>>))),
           Resp(200, JsonBody(EmptyList)),
           Resp(200, NonJson) }

-----------------------------------------------------------------------------
(* get_average_impressions                                                 *)

\* What the function returns: None or a float, the float as a fraction in
\* lowest terms.
NoneResult == [t |-> "none", num |-> 0, den |-> 1]
FloatResult(n, d) == [t |-> "float", num |-> n, den |-> d]
Unset == [t |-> "unset", num |-> 0, den |-> 1]

RECURSIVE GCD(_, _)
GCD(a, b) == IF b = 0 THEN a ELSE GCD(b, a % b)

\* Line 120 written as `if views:`.
IsNotNone_Truthy(v) == Truthy(v)

\* Line 120: views is not None
IsNotNone(v) == v.t # "null"

\* Line 121: total_views += views, for an integer views
AddViews(total, v) == total + v.n

\* Line 122 moved out of the branch of line 120.
NextCount_CountsAll(count, valid) == count + 1

\* Line 122: valid_post_count += 1 in the branch of line 120, which the
\* flag `valid` tells.
NextCount(count, valid) == IF valid THEN count + 1 ELSE count

\* Line 127 testing total_views instead.
HasValidPosts_ByTotal(total, count) == total > 0

\* Line 127: valid_post_count > 0
HasValidPosts(total, count) == count > 0

\* Line 128: total_views / valid_post_count
Average(total, count) ==
    LET g == GCD(total, count) IN FloatResult(total \div g, count \div g)

VARIABLES
    pc,                 \* where get_average_impressions / __main__ stands
    jsonErrIsRequestException,  \* the requests build (see make_api_request)
    posts,              \* line 114
    idx,                \* position of the for loop of line 118, from 1
    total_views,        \* line 115
    valid_post_count,   \* line 116
    views,              \* line 119
    result,             \* the value get_average_impressions returned
    exc,                \* the exception that left get_average_impressions
    log,                \* the log lines written
    requests,           \* the URLs requests.get was called with, in order
    reqSleeps,          \* per request, the time.sleep calls made before it
    sleeps,             \* calls of time.sleep(0.5)
    lookups,            \* the values get_post_views returned, in order
    lastCall,           \* the last make_api_request call and its outcome
    fnOut               \* the last get_user_posts / get_post_views outcome

vars == <<pc, jsonErrIsRequestException, posts, idx, total_views, valid_post_count,
          views, result, exc, log, requests, reqSleeps, sleeps, lookups, lastCall, fnOut>>

Init ==
    /\ pc = "start"
    /\ jsonErrIsRequestException \in BOOLEAN
    /\ posts = EmptyList
    /\ idx = 1
    /\ total_views = 0
    /\ valid_post_count = 0
    /\ views = JNull
    /\ result = Unset
    /\ exc = NoExc
    /\ log = <<>>
    /\ requests = <<>>
    /\ reqSleeps = <<>>
    /\ sleeps = 0
    /\ lookups = <<>>
    /\ lastCall = [made |-> FALSE, url |-> NoUrl, http |-> NetFail,
                   out |-> Returned(JNull, <<>>)]
    /\ fnOut = [fn |-> "none", kind |-> "return", doc |-> JNull, exc |-> NoExc]

\* An exception e raised inside the try of lines 113-137: line 135 catches
\* ThreadsApiError, anything else leaves the function.
LeaveTry(e, newlog) ==
    IF e.type = "ThreadsApiError"
    THEN /\ pc' = "returned"
         /\ result' = NoneResult
         /\ log' = Append(newlog, LogLine("ERROR", "Failed to calculate average impressions", <<>>))
         /\ exc' = exc
    ELSE /\ pc' = "raised"
         /\ exc' = e
         /\ log' = newlog
         /\ result' = result

CallOf(url, http) ==
    [made |-> TRUE, url |-> url, http |-> http,
     out |-> make_api_request(url, http, jsonErrIsRequestException)]

\* Lines 111-116.
GetUserPosts ==
    /\ pc = "start"
    /\ \E http \in PostsResponses :
         LET r == get_user_posts(http, jsonErrIsRequestException)
             newlog == <<LogLine("INFO", "Calculating average impressions", <<>>)>> \o r.logs
         IN  /\ lastCall' = CallOf(ThreadsUrl, http)
             /\ fnOut' = [fn |-> "get_user_posts", kind |-> r.kind, doc |-> r.doc, exc |-> r.exc]
             /\ requests' = Append(requests, ThreadsUrl)
             /\ reqSleeps' = Append(reqSleeps, sleeps)
             /\ IF r.kind = "return"
                THEN /\ posts' = r.doc
                     /\ pc' = "loop"
                     /\ log' = log \o newlog
                     /\ UNCHANGED <<result, exc>>
                ELSE /\ LeaveTry(r.exc, log \o newlog)
                     /\ UNCHANGED posts
    /\ idx' = 1
    /\ total_views' = 0
    /\ valid_post_count' = 0
    /\ UNCHANGED <<jsonErrIsRequestException, views, sleeps, lookups>>

\* Lines 118-119: the next post, its id, its views.
GetPostViews ==
    /\ pc = "loop"
    /\ idx <= Len(PyIter(posts))
    /\ LET id == GetKey(PyIter(posts)[idx], "id") IN
       IF ~id.ok
       THEN /\ LeaveTry(Exc(id.exc), log)
            /\ UNCHANGED <<views, requests, reqSleeps, lookups, lastCall, fnOut>>
       ELSE \E http \in ViewsResponses :
              LET r == get_post_views(id.val, http, jsonErrIsRequestException) IN
              /\ lastCall' = CallOf(InsightsUrl(id.val), http)
              /\ fnOut' = [fn |-> "get_post_views", kind |-> r.kind, doc |-> r.doc, exc |-> r.exc]
              /\ requests' = Append(requests, InsightsUrl(id.val))
              /\ reqSleeps' = Append(reqSleeps, sleeps)
              /\ IF r.kind = "return"
                 THEN /\ views' = r.doc
                      /\ lookups' = Append(lookups, r.doc)
                      /\ pc' = "got_views"
                      /\ log' = log \o r.logs
                      /\ UNCHANGED <<result, exc>>
                 ELSE /\ LeaveTry(r.exc, log \o r.logs)
                      /\ UNCHANGED <<views, lookups>>
    /\ UNCHANGED <<jsonErrIsRequestException, posts, idx, total_views, valid_post_count, sleeps>>

\* Lines 120-122.  int + str (or list, dict) raises TypeError.
Accumulate ==
    /\ pc = "got_views"
    /\ IF IsNotNone(views)
       THEN IF views.t = "int"
            THEN /\ total_views' = AddViews(total_views, views)
                 /\ valid_post_count' = NextCount(valid_post_count, TRUE)
                 /\ pc' = "sleep"
                 /\ UNCHANGED <<result, exc, log>>
            ELSE /\ LeaveTry(Exc("TypeError"), log)
                 /\ UNCHANGED <<total_views, valid_post_count>>
       ELSE /\ total_views' = total_views
            /\ valid_post_count' = NextCount(valid_post_count, FALSE)
            /\ pc' = "sleep"
            /\ UNCHANGED <<result, exc, log>>
    /\ UNCHANGED <<jsonErrIsRequestException, posts, idx, views, requests, reqSleeps,
                   sleeps, lookups, lastCall, fnOut>>

\* Line 125, and on to the next post.
Sleep ==
    /\ pc = "sleep"
    /\ sleeps' = sleeps + 1
    /\ idx' = idx + 1
    /\ pc' = "loop"
    /\ UNCHANGED <<jsonErrIsRequestException, posts, total_views, valid_post_count, views,
                   result, exc, log, requests, reqSleeps, lookups, lastCall, fnOut>>

\* Lines 127-133, after the last post.
Finish ==
    /\ pc = "loop"
    /\ idx > Len(PyIter(posts))
    /\ IF HasValidPosts(total_views, valid_post_count)
       THEN /\ result' = Average(total_views, valid_post_count)
            /\ log' = Append(log, LogLine("INFO", "Average impressions: %.2f (based on %s posts)",
                                          <<JInt(valid_post_count)>>))
       ELSE /\ result' = NoneResult
            /\ log' = Append(log, LogLine("WARNING", "No valid posts found", <<>>))
    /\ pc' = "returned"
    /\ UNCHANGED <<jsonErrIsRequestException, posts, idx, total_views, valid_post_count, views,
                   exc, requests, reqSleeps, sleeps, lookups, lastCall, fnOut>>

\* Lines 145-150.
EntryPoint ==
    /\ pc = "returned"
    /\ log' = Append(log, IF result.t # "none"
                          THEN LogLine("INFO", "Average Impressions: %.2f", <<>>)
                          ELSE LogLine("ERROR", "Failed to retrieve average impressions", <<>>))
    /\ pc' = "exit"
    /\ UNCHANGED <<jsonErrIsRequestException, posts, idx, total_views, valid_post_count, views,
                   result, exc, requests, reqSleeps, sleeps, lookups, lastCall, fnOut>>

Next == GetUserPosts \/ GetPostViews \/ Accumulate \/ Sleep \/ Finish \/ EntryPoint

Spec == Init /\ [][Next]_vars

-----------------------------------------------------------------------------
(* Vocabulary of the properties.                                           *)

Terminated == pc \in {"returned", "raised", "exit"}
HasReturned == pc \in {"returned", "exit"}

\* get_user_posts returned (its posts are in `posts`).
PostsReturned ==
    \/ fnOut.fn = "get_post_views"
    \/ fnOut.fn = "get_user_posts" /\ fnOut.kind = "return"

NPosts == Len(PyIter(posts))

\* The posts are a list of records that each have an id.
ProperPosts ==
    /\ PostsReturned
    /\ posts.t = "list"
    /\ \A i \in 1..Len(posts.items) : GetKey(posts.items[i], "id").ok

\* A lookup succeeded when get_post_views returned something other than None.
Successful(v) == v.t # "null"

RECURSIVE SumSuccessful(_)
SumSuccessful(s) ==
    IF s = <<>> THEN 0
    ELSE (IF Head(s).t = "int" THEN Head(s).n ELSE 0) + SumSuccessful(Tail(s))

CountSuccessful(s) == Cardinality({i \in 1..Len(s) : Successful(s[i])})

\* Every post was looked up, each lookup giving an integer or None.
AllLookedUp ==
    /\ PostsReturned
    /\ Len(lookups) = NPosts
    /\ \A i \in 1..Len(lookups) : lookups[i].t \in {"int", "null"}

CountLines(logs, level, text) ==
    Cardinality({i \in 1..Len(logs) : logs[i].level = level /\ logs[i].text = text})
CountLevel(logs, level) == Cardinality({i \in 1..Len(logs) : logs[i].level = level})

Warnings == CountLines(log, "WARNING", "No valid posts found")
AggregatorErrors == CountLines(log, "ERROR", "Failed to calculate average impressions")

\* The API call failed: no response, or a status outside 2xx, or a body
\* that does not parse.
NetworkOrStatusFailure(http) ==
    http.kind = "netfail" \/ ~(200 <= http.status /\ http.status < 300)
CallFailed(http) == NetworkOrStatusFailure(http) \/ ~http.body.json

\* doc has the shape data[0].values[0].value.
WellShaped(doc) ==
    /\ doc.t = "dict" /\ HasKey(doc, "data")
    /\ LET data == ValueAt(doc, "data") IN
       /\ data.t = "list" /\ Len(data.items) >= 1
       /\ LET first == data.items[1] IN
          /\ first.t = "dict" /\ HasKey(first, "values")
          /\ LET values == ValueAt(first, "values") IN
             /\ values.t = "list" /\ Len(values.items) >= 1
             /\ values.items[1].t = "dict" /\ HasKey(values.items[1], "value")

-----------------------------------------------------------------------------
(* C1: when every post was looked up with an integer or None as outcome    *)
(* and at least one lookup gave an integer, get_average_impressions        *)
(* returns the sum of the integers divided by their number; None outcomes  *)
(* enter neither; [100, None, 300] gives 200.0, [50, 150, 100] gives 100.0 *)
C1_AverageOfSuccessful ==
    (Terminated /\ AllLookedUp /\ CountSuccessful(lookups) > 0)
    => /\ HasReturned
       /\ result.t = "float"
       /\ result.den > 0
       /\ result.num * CountSuccessful(lookups) = SumSuccessful(lookups) * result.den
       /\ (lookups = <<JInt(100), JNull, JInt(300)>> => result = FloatResult(200, 1))
       /\ (lookups = <<JInt(50), JInt(150), JInt(100)>> => result = FloatResult(100, 1))

C1_Witness ==
    /\ pc = "returned"
    /\ lookups = <<JInt(100), JNull, JInt(300)>>
    /\ result = FloatResult(200, 1)

(* C2: get_average_impressions returns None exactly when no lookup         *)
(* succeeded; when get_user_posts returned no post or every post's lookup  *)
(* returned None it returns None, having logged the WARNING once and its   *)
(* own ERROR line never.                                                   *)
C2_NoneIffNoSuccess ==
    /\ HasReturned => ((result = NoneResult) <=> (CountSuccessful(lookups) = 0))
    /\ (HasReturned /\ result = NoneResult) => (Warnings = 1 /\ AggregatorErrors = 0)
    /\ (Terminated /\ AllLookedUp /\ CountSuccessful(lookups) = 0)
       => (HasReturned /\ result = NoneResult /\ Warnings = 1 /\ AggregatorErrors = 0)

C2_Witness ==
    /\ pc = "returned"
    /\ NPosts = 2
    /\ lookups = <<JNull, JNull>>
    /\ result = NoneResult
    /\ Warnings = 1

(* C10: a lookup that returns the integer 0 is a successful one: it counts *)
(* as a contributing post and adds 0; [0, 100] gives 50.0, and when the    *)
(* only successful lookups are 0 the result is 0.0, not None.              *)
C10_ZeroIsSuccess ==
    /\ (pc = "sleep" /\ views = JInt(0))
       => /\ valid_post_count = CountSuccessful(lookups)
          /\ total_views = SumSuccessful(lookups)
    /\ (HasReturned /\ lookups = <<JInt(0), JInt(100)>>) => result = FloatResult(50, 1)
    /\ (HasReturned /\ (\E i \in 1..Len(lookups) : lookups[i] = JInt(0))
                    /\ (\A i \in 1..Len(lookups) : lookups[i] \in {JInt(0), JNull}))
       => result = FloatResult(0, 1)

C10_Witness ==
    /\ pc = "returned"
    /\ lookups = <<JInt(0), JInt(100)>>
    /\ result = FloatResult(50, 1)

-----------------------------------------------------------------------------
(* C3: get_user_posts returns an empty list and does not raise whenever    *)
(* its API call fails: no response at all, or a status outside 2xx.        *)
C3_PostsFailureGivesEmpty ==
    (fnOut.fn = "get_user_posts" /\ NetworkOrStatusFailure(lastCall.http))
    => (fnOut.kind = "return" /\ fnOut.doc = EmptyList)

(* C4: get_post_views returns None and does not raise whenever its API     *)
(* call fails or the answer is not of the shape data[0].values[0].value.   *)
C4_ViewsFailureGivesNone ==
    (fnOut.fn = "get_post_views"
       /\ (CallFailed(lastCall.http) \/ ~WellShaped(lastCall.http.body.doc)))
    => (fnOut.kind = "return" /\ fnOut.doc = JNull)

(* C5: when the GET fails (no response, a status outside 2xx, a body that  *)
(* does not parse) make_api_request logs one ERROR line and raises         *)
(* ThreadsApiError carrying the URL; nothing else ever leaves it.          *)
C5_OnlyThreadsApiError ==
    lastCall.made
    => /\ CallFailed(lastCall.http)
          => /\ lastCall.out.kind = "raise"
             /\ lastCall.out.exc = ThreadsApiError(lastCall.url)
             /\ CountLevel(lastCall.out.logs, "ERROR") = 1
       /\ lastCall.out.kind = "raise" => lastCall.out.exc.type = "ThreadsApiError"

(* C6: a run over N posts calls time.sleep(0.5) N times, once after each   *)
(* post's lookup, the last one included.                                   *)
C6_SleepPerPost ==
    /\ ProperPosts => sleeps <= NPosts
    /\ (Terminated /\ ProperPosts) => sleeps = NPosts

(* C7: whatever the HTTP calls answer, get_average_impressions ends by     *)
(* returning a float or None; no exception leaves it.                      *)
C7_NeverRaises ==
    /\ pc # "raised"
    /\ HasReturned => result.t \in {"float", "none"}

(* C8: for a response with a 4xx/5xx status, the structured line (message, *)
(* Code, Subcode) is logged exactly when the status is 400 and the body is *)
(* JSON with a non-empty `error` object; otherwise the raw exception text  *)
(* is logged; either way ThreadsApiError is raised.                        *)
StructuredCase(http) ==
    /\ http.status = 400
    /\ http.body.json
    /\ http.body.doc.t = "dict"
    /\ HasKey(http.body.doc, "error")
    /\ ValueAt(http.body.doc, "error").t = "dict"
    /\ Len(ValueAt(http.body.doc, "error").keys) > 0

C8_StructuredOnlyFor400 ==
    (lastCall.made /\ lastCall.http.kind = "resp" /\ RaiseForStatus(lastCall.http.status))
    => /\ (CountLines(lastCall.out.logs, "ERROR",
                      "API request failed: %s (Code: %s, Subcode: %s)") = 1)
          <=> StructuredCase(lastCall.http)
       /\ ~StructuredCase(lastCall.http)
          => CountLines(lastCall.out.logs, "ERROR", "API request failed: %s") = 1
       /\ lastCall.out.kind = "raise"
       /\ lastCall.out.exc.type = "ThreadsApiError"

(* C9: a run issues the posts request, then one insights request per       *)
(* returned post in the posts' order, none twice; the request for post k+1 *)
(* comes after post k's lookup and sleep; no insights request follows a    *)
(* failed posts request.                                                   *)
C9_OneRequestPerPost ==
    /\ Len(requests) >= 1 => requests[1] = ThreadsUrl
    /\ \A k \in 2..Len(requests) :
         /\ requests[k] = InsightsUrl(GetKey(PyIter(posts)[k - 1], "id").val)
         /\ reqSleeps[k] = k - 2
         /\ Len(lookups) >= k - 2
    /\ CountLines(log, "ERROR", "Failed to fetch posts") > 0 => Len(requests) = 1
    /\ (Terminated /\ ProperPosts) => Len(requests) = 1 + NPosts

====
